---- MODULE Spec2Model ----
(***************************************************************************)
(* Task API of the todo application: JWT verification, the user_id guard   *)
(* of the task routes and the owner-scoped queries on the tasks table.     *)
(* One action per REST endpoint; a step is one whole request.              *)
(***************************************************************************)
EXTENDS Integers, Sequences, FiniteSets, TLC

\* ------------------------------------------------------------------ bounds
MaxIds == 2            \* number of ids the SERIAL sequence hands out
MaxRows == 1           \* number of rows the tasks table holds at a time
MaxClock == 2          \* largest reading of the wall clock
MaxListRows == 2       \* number of rows the table holds in SpecList
MaxInFlight == 2       \* number of api calls of the page awaited at a time
MaxCalls == 3          \* number of api calls the page makes in a session

\* ---------------------------------------------------------------- constants
TitleMax == 200        \* title VARCHAR(200)
DescMax == 1000        \* maxLength of the description field of TaskForm
ConfirmSecs == 3       \* setTimeout(() => setShowConfirm(false), 3000)

Users == {"A", "B"}

\* A string is kept as its content tag and its shape: leading whitespace,
\* core (first to last non-blank character) and trailing whitespace.
Str(tag, lead, core, trail) ==
    [tag |-> tag, lead |-> lead, core |-> core, trail |-> trail]

\* Python None / SQL NULL in a text column
NoneStr == Str("None", 0, 0, 0)

StrLen(s) == s.lead + s.core + s.trail

\* the empty string, which is not None
EmptyStr == Str("", 0, 0, 0)

\* String.prototype.trim
Trim(s) == IF s.core = 0 THEN EmptyStr ELSE Str(s.tag, 0, s.core, 0)

TitleInputs == {Str("X", 0, 1, 0), Str("Y", 0, 1, 0)}
DescInputs == {NoneStr, Str("D", 0, 1, 0)}

TaskIds == 1..MaxIds

\* Authorization header of a request, by the first check of verify_token
\* that it fails: no header, undecodable or wrongly signed, expired,
\* signed but without "sub", or signed for a user.
TokenInputs ==
    {[kind |-> k, sub |-> "-"] : k \in {"none", "malformed", "expired", "nosub"}}
    \cup {[kind |-> "valid", sub |-> u] : u \in Users}

VARIABLES
    users,      \* users table: the ids of its rows
    tasks,      \* tasks table: id -> row
    nextId,     \* next value of the SERIAL sequence of tasks.id
    now,        \* latest reading of datetime.utcnow()
    txn,        \* per worker: the request it is in the middle of
    snap,       \* the database when the requests in progress began
    last,       \* the request handled last and its response status
    page,       \* TasksPage: its useState values and where the router is
    form,       \* TaskForm: its useState values
    items,      \* TaskItem, per rendered task: showConfirm and its timeouts
    net,        \* the api calls of the page that have not returned yet
    signup,     \* SignUpPage: its useState values and its api call
    ev,         \* the browser event or promise continuation run last
    hist        \* what has happened on the page so far

\* the server's variables
dbVars == <<users, tasks, nextId, now, txn, snap, last>>

\* the browser's variables
uiVars == <<page, form, items, net, signup, ev, hist>>

vars == <<users, tasks, nextId, now, txn, snap, last, page, form, items, net, signup, ev, hist>>

\* ------------------------------------------------------------ the wall clock
\* datetime.utcnow(): a reading is never before the previous one, and is
\* equal to it when the clock has not ticked in between.
ClockRead(t) == {t} \cup (IF t < MaxClock THEN {t + 1} ELSE {})

\* ------------------------------------------------------- token verification
\* fastapi.security.HTTPBearer: without credentials it raises before
\* verify_token's body runs, with 403 (or 401 in newer releases).
HTTPBearer(tok) == IF tok.kind = "none" THEN {403, 401} ELSE {0}

\* verify_token: status 0 stands for "returned user_id".  `jwt` is PyJWT,
\* which has ExpiredSignatureError but no JWTError: any exception other
\* than ExpiredSignatureError leaving the try block (the decode error and
\* the HTTPException of the missing sub alike) reaches the clause
\* `except jwt.JWTError`, whose evaluation raises AttributeError, which the
\* global exception handler turns into 500.
verify_token(tok) ==
    IF tok.kind = "none"
    THEN {[status |-> s, sub |-> "-"] : s \in HTTPBearer(tok)}
    ELSE IF tok.kind = "expired" THEN {[status |-> 401, sub |-> "-"]}
    ELSE IF tok.kind \in {"malformed", "nosub"} THEN {[status |-> 500, sub |-> "-"]}
    ELSE {[status |-> 0, sub |-> tok.sub]}

\* the comparison left out
Guard_Off(user_id, authenticated_user_id) == TRUE

\* if user_id != authenticated_user_id: raise 403
Guard(user_id, authenticated_user_id) == user_id = authenticated_user_id

\* ------------------------------------------------------------------- tables
\* Task row with the model's defaults; created_at and updated_at come from
\* two separate default_factory calls.
Task(user_id, title, description, t1, t2) ==
    [user_id |-> user_id, title |-> title, description |-> description,
     completed |-> FALSE, created_at |-> t1, updated_at |-> t2]

\* response without a task in its body
NoTask ==
    [user_id |-> "-", title |-> NoneStr, description |-> NoneStr,
     completed |-> FALSE, created_at |-> 0 - 1, updated_at |-> 0 - 1]

\* column constraints of the tasks table checked at commit
DbAccepts(row) == row.title # NoneStr /\ StrLen(row.title) <= TitleMax

\* the query without its user_id condition
SelectTask_AnyOwner(ts, task_id, user_id) == {i \in DOMAIN ts : i = task_id}

\* select(Task).where(Task.id == task_id, Task.user_id == user_id).first()
SelectTask(ts, task_id, user_id) ==
    {i \in DOMAIN ts : i = task_id /\ ts[i].user_id = user_id}

\* the database a request starts from
Db(ts, nid, t) == [tasks |-> ts, nextId |-> nid, now |-> t]

\* what a request leaves behind: the database, and the response's status
\* and task; store tells whether the route got as far as its session
Out(ts, nid, t, status, id, row, store) ==
    [tasks |-> ts, nextId |-> nid, now |-> t,
     status |-> status, id |-> id, row |-> row, store |-> store]

\* HTTPException raised before the session is used
Refuse(db, status) == Out(db.tasks, db.nextId, db.now, status, 0, NoTask, FALSE)

\* ---------------------------------------------------- POST /{user_id}/tasks
\* the id taken as the smallest one no row has
Insert_ReuseId(db, task) ==
    LET id == CHOOSE i \in 1..db.nextId : i \notin DOMAIN db.tasks
                    /\ \A j \in 1..(i - 1) : j \in DOMAIN db.tasks
    IN IF DbAccepts(task)
       THEN Out(db.tasks @@ (id :> task), db.nextId + 1, task.updated_at,
                201, id, task, TRUE)
       ELSE Out(db.tasks, db.nextId + 1, task.updated_at, 500, 0, NoTask, TRUE)

\* the id computed from the rows present
Insert_MaxPlusOne(db, task) ==
    LET id == 1 + Cardinality({i \in 1..db.nextId : \E j \in DOMAIN db.tasks : j >= i})
    IN IF DbAccepts(task)
       THEN Out(db.tasks @@ (id :> task), id + 1, task.updated_at, 201, id, task, TRUE)
       ELSE Out(db.tasks, db.nextId, task.updated_at, 500, 0, NoTask, TRUE)

\* the row left in the table when the commit has failed
Insert_NoRollback(db, task) ==
    Out(db.tasks @@ (db.nextId :> task), db.nextId + 1, task.updated_at,
        IF DbAccepts(task) THEN 201 ELSE 500,
        IF DbAccepts(task) THEN db.nextId ELSE 0,
        IF DbAccepts(task) THEN task ELSE NoTask, TRUE)

\* session.add(task); session.commit(); session.refresh(task).  The id is
\* drawn from the sequence even when the INSERT is rolled back.
Insert(db, task) ==
    IF DbAccepts(task)
    THEN Out(db.tasks @@ (db.nextId :> task), db.nextId + 1, task.updated_at,
             201, db.nextId, task, TRUE)
    ELSE Out(db.tasks, db.nextId + 1, task.updated_at, 500, 0, NoTask, TRUE)

\* the row committed before the path is compared with the token
create_task_WriteThenGuard(db, tok, user_id, task_data) ==
    UNION {
      IF v.status # 0 THEN {Refuse(db, v.status)}
      ELSE IF ~task_data.ok THEN {Refuse(db, 422)}
      ELSE UNION {{LET o == Insert(db, Task(user_id, task_data.title,
                                            task_data.description, t1, t2))
                   IN IF Guard(user_id, v.sub) THEN o
                      ELSE [o EXCEPT !.status = 403, !.id = 0, !.row = NoTask]
                   : t2 \in ClockRead(t1)} : t1 \in ClockRead(db.now)}
      : v \in verify_token(tok)}

\* task_data.ok: the body parses as TaskCreate; FastAPI answers 422 after
\* the dependencies (verify_token) and before the function body runs.
create_task(db, tok, user_id, task_data) ==
    UNION {
      IF v.status # 0 THEN {Refuse(db, v.status)}
      ELSE IF ~task_data.ok THEN {Refuse(db, 422)}
      ELSE IF ~Guard(user_id, v.sub) THEN {Refuse(db, 403)}
      ELSE UNION {{Insert(db, Task(user_id, task_data.title, task_data.description, t1, t2)) :
                     t2 \in ClockRead(t1)} : t1 \in ClockRead(db.now)}
      : v \in verify_token(tok)}

\* ----------------------------------------------- GET /{user_id}/tasks/{id}
get_route(db, tok, user_id, task_id) ==
    UNION {
      IF v.status # 0 THEN {Refuse(db, v.status)}
      ELSE IF ~Guard(user_id, v.sub) THEN {Refuse(db, 403)}
      ELSE IF SelectTask(db.tasks, task_id, user_id) = {}
      THEN {Out(db.tasks, db.nextId, db.now, 404, 0, NoTask, TRUE)}
      ELSE {Out(db.tasks, db.nextId, db.now, 200, task_id, db.tasks[task_id], TRUE)}
      : v \in verify_token(tok)}

\* ----------------------------------------------- PUT /{user_id}/tasks/{id}
\* every field of TaskUpdate written, the ones not sent as None
SetAttrs_AllFields(row, kwargs) ==
    [f \in DOMAIN row |->
       IF f \in DOMAIN kwargs THEN kwargs[f]
       ELSE IF f = "description" THEN NoneStr
       ELSE row[f]]

\* for key, value in kwargs.items(): setattr(task, key, value)
SetAttrs(row, kwargs) ==
    [f \in DOMAIN row |-> IF f \in DOMAIN kwargs THEN kwargs[f] ELSE row[f]]

\* update_task without task.updated_at = datetime.utcnow()
update_task_NoStamp(ts, task_id, user_id, kwargs, t) ==
    IF SelectTask(ts, task_id, user_id) = {}
    THEN [found |-> FALSE, tasks |-> ts]
    ELSE [found |-> TRUE,
          tasks |-> [ts EXCEPT ![task_id] = SetAttrs(@, kwargs)]]

\* update_task with the clock reading t: whether a row was selected (the
\* function returns the task, else None) and the table it wants committed
update_task(ts, task_id, user_id, kwargs, t) ==
    IF SelectTask(ts, task_id, user_id) = {}
    THEN [found |-> FALSE, tasks |-> ts]
    ELSE [found |-> TRUE,
          tasks |-> [ts EXCEPT ![task_id] = [SetAttrs(@, kwargs) EXCEPT !.updated_at = t]]]

\* update_task called by a route: None becomes 404, a commit the table
\* rejects becomes 500 with the row as it was.  The clock is read only
\* when a row was selected.
Update(db, task_id, user_id, kwargs) ==
    UNION {
      LET u == update_task(db.tasks, task_id, user_id, kwargs, t)
      IN IF ~u.found THEN {Out(db.tasks, db.nextId, db.now, 404, 0, NoTask, TRUE)}
         ELSE IF DbAccepts(u.tasks[task_id])
         THEN {Out(u.tasks, db.nextId, t, 200, task_id, u.tasks[task_id], TRUE)}
         ELSE {Out(db.tasks, db.nextId, t, 500, 0, NoTask, TRUE)}
      : t \in ClockRead(db.now)}

\* kwargs are the fields the TaskUpdate body supplies
update_route(db, tok, user_id, task_id, kwargs) ==
    UNION {
      IF v.status # 0 THEN {Refuse(db, v.status)}
      ELSE IF ~Guard(user_id, v.sub) THEN {Refuse(db, 403)}
      ELSE Update(db, task_id, user_id, kwargs)
      : v \in verify_token(tok)}

\* ------------------------------------ PATCH /{user_id}/tasks/{id}/complete
\* the body ignored
ToggleValue_AlwaysFlip(completed, arg) == ~completed

\* body {"completed": b} sets the flag ("true", "false"), no body flips it
ToggleValue(completed, arg) == IF arg = "flip" THEN ~completed ELSE arg = "true"

toggle_route(db, tok, user_id, task_id, arg) ==
    UNION {
      IF v.status # 0 THEN {Refuse(db, v.status)}
      ELSE IF ~Guard(user_id, v.sub) THEN {Refuse(db, 403)}
      ELSE IF SelectTask(db.tasks, task_id, user_id) = {}
      THEN {Out(db.tasks, db.nextId, db.now, 404, 0, NoTask, TRUE)}
      ELSE Update(db, task_id, user_id,
                  "completed" :> ToggleValue(db.tasks[task_id].completed, arg))
      : v \in verify_token(tok)}

\* -------------------------------------------- DELETE /{user_id}/tasks/{id}
\* the row looked up by its id alone
delete_task_ById(ts, task_id, user_id) ==
    [found |-> task_id \in DOMAIN ts,
     tasks |-> [i \in DOMAIN ts \ {task_id} |-> ts[i]]]

\* delete_task: its return value and the table it commits
delete_task(ts, task_id, user_id) ==
    [found |-> SelectTask(ts, task_id, user_id) # {},
     tasks |-> [i \in DOMAIN ts \ SelectTask(ts, task_id, user_id) |-> ts[i]]]

delete_route(db, tok, user_id, task_id) ==
    UNION {
      IF v.status # 0 THEN {Refuse(db, v.status)}
      ELSE IF ~Guard(user_id, v.sub) THEN {Refuse(db, 403)}
      ELSE LET d == delete_task(db.tasks, task_id, user_id)
           IN IF ~d.found THEN {Out(db.tasks, db.nextId, db.now, 404, 0, NoTask, TRUE)}
              ELSE {Out(d.tasks, db.nextId, db.now, 204, 0, NoTask, TRUE)}
      : v \in verify_token(tok)}

\* --------------------------------------------------- GET /{user_id}/tasks
Perms(S) ==
    {s \in [1..Cardinality(S) -> S] : \A i, j \in 1..Cardinality(S) : i # j => s[i] # s[j]}

\* select(Task).where(user_id).order_by(created_at.desc()): every order the
\* database may return, rows of equal created_at in either order
get_user_tasks(ts, user_id) ==
    {s \in Perms({i \in DOMAIN ts : ts[i].user_id = user_id}) :
        \A i, j \in 1..Len(s) : i < j => ts[s[i]].created_at >= ts[s[j]].created_at}

\* the query without its user_id condition
get_incomplete_tasks_AnyOwner(ts, user_id) ==
    Perms({i \in DOMAIN ts : ~ts[i].completed})

\* select(Task).where(user_id, completed == False): no ORDER BY
get_incomplete_tasks(ts, user_id) ==
    Perms({i \in DOMAIN ts : ts[i].user_id = user_id /\ ~ts[i].completed})

\* the completed=true filter: the completed rows of the user, newest first
get_completed_tasks(ts, user_id) ==
    {s \in Perms({i \in DOMAIN ts : ts[i].user_id = user_id /\ ts[i].completed}) :
        \A i, j \in 1..Len(s) : i < j => ts[s[i]].created_at >= ts[s[j]].created_at}

\* query parameter completed of the list route: absent, true or false
ListFilters == {"all", "true", "false"}

\* the sequences of ids the list route may answer with
list_tasks(ts, user_id, filter) ==
    IF filter = "all" THEN get_user_tasks(ts, user_id)
    ELSE IF filter = "false" THEN get_incomplete_tasks(ts, user_id)
    ELSE get_completed_tasks(ts, user_id)

\* get_tasks: the guard of the list route; the listing itself is
\* get_user_tasks(db.tasks, user_id)
get_tasks(db, tok, user_id) ==
    UNION {
      IF v.status # 0 THEN {Refuse(db, v.status)}
      ELSE IF ~Guard(user_id, v.sub) THEN {Refuse(db, 403)}
      ELSE {Out(db.tasks, db.nextId, db.now, 200, 0, NoTask, TRUE)}
      : v \in verify_token(tok)}

\* ------------------------------------------------------------ all requests
KwTitle == {<< >>} \cup {("title" :> t) : t \in TitleInputs}
KwDescription == {<< >>} \cup {("description" :> d) : d \in DescInputs}
KwCompleted == {<< >>} \cup {("completed" :> c) : c \in BOOLEAN}
\* TaskUpdate with a user_id field
UpdateBodies_WithOwner ==
    {a @@ b @@ c @@ d : a \in KwTitle, b \in KwDescription, c \in KwCompleted,
                        d \in {<< >>} \cup {("user_id" :> u) : u \in Users}}

\* TaskUpdate: any subset of title, description and completed
UpdateBodies == {a @@ b @@ c : a \in KwTitle, b \in KwDescription, c \in KwCompleted}

CreateBodies ==
    {[ok |-> TRUE, title |-> t, description |-> d] : t \in TitleInputs, d \in DescInputs}
    \cup {[ok |-> FALSE, title |-> NoneStr, description |-> NoneStr]}

ToggleArgs == {"flip", "true", "false"}

ValidToken(u) == [kind |-> "valid", sub |-> u]

\* ---------------------------------------------------- the requests sent
\* Own: a user's token with the user's own path.  Probe: every other token
\* and path, sent for task 1.
Own == {[tok |-> ValidToken(u), user_id |-> u] : u \in Users}
Probe == {[tok |-> tok, user_id |-> u] : tok \in TokenInputs, u \in Users} \ Own

BadBody == [ok |-> FALSE, title |-> NoneStr, description |-> NoneStr]
CreateSent ==
    {[ok |-> TRUE, title |-> Str("X", 0, 1, 0), description |-> NoneStr], BadBody}

\* the requests of the single user of SpecStore
StoreUser == [tok |-> ValidToken("A"), user_id |-> "A"]
StoreCreateSent ==
    {[ok |-> TRUE, title |-> Str("X", 0, 1, 0), description |-> NoneStr],
     [ok |-> TRUE, title |-> Str("Y", 0, 1, 0), description |-> Str("D", 0, 1, 0)]}
StoreUpdateSent ==
    {<< >>,
     "title" :> Str("Y", 0, 1, 0),
     "description" :> Str("D", 0, 1, 0),
     "description" :> NoneStr,
     "completed" :> TRUE,
     ("title" :> Str("X", 0, 1, 0)) @@ ("completed" :> FALSE),
     "title" :> NoneStr}

Who(tok) == IF tok.kind = "valid" THEN tok.sub ELSE tok.kind

\* completed and updated_at of the row a request names, as they were
\* before the request
NoRow == [found |-> FALSE, completed |-> FALSE, updated_at |-> 0]
RowBefore(task_id) ==
    IF task_id \in DOMAIN tasks
    THEN [found |-> TRUE, completed |-> tasks[task_id].completed,
          updated_at |-> tasks[task_id].updated_at]
    ELSE NoRow

\* one request: the database and the response are one of the outcomes
Handle(op, tok, user_id, task_id, arg, outs) ==
    \E o \in outs :
      /\ users' = users
      /\ UNCHANGED <<txn, snap>>
      /\ UNCHANGED uiVars
      /\ tasks' = o.tasks
      /\ nextId' = o.nextId
      /\ now' = o.now
      /\ last' = [op |-> op, sub |-> Who(tok), path |-> user_id,
                  id |-> IF op = "create" THEN o.id ELSE task_id,
                  arg |-> arg, status |-> o.status, store |-> o.store,
                  before |-> IF o.status = 200 /\ op \in {"update", "toggle"}
                             THEN RowBefore(task_id) ELSE NoRow]

\* FOREIGN KEY (user_id) REFERENCES users(id), checked when create_task
\* commits: the INSERT of a row whose user has no row in users is rolled
\* back, its id stays drawn
ForeignKey(us, db, outs) ==
    {IF o.status = 201 /\ o.row.user_id \notin us
     THEN Out(db.tasks, o.nextId, o.now, 500, 0, NoTask, TRUE)
     ELSE o : o \in outs}

CreateTaskUpTo(r, body, rows) ==
    /\ nextId <= MaxIds
    /\ Cardinality(DOMAIN tasks) < rows
    /\ Handle("create", r.tok, r.user_id, 0, body,
              ForeignKey(users, Db(tasks, nextId, now),
                         create_task(Db(tasks, nextId, now), r.tok, r.user_id, body)))

CreateTask(r, body) == CreateTaskUpTo(r, body, MaxRows)

GetTask(r, i) ==
    Handle("get", r.tok, r.user_id, i, "-",
           get_route(Db(tasks, nextId, now), r.tok, r.user_id, i))

UpdateTask(r, i, kwargs) ==
    Handle("update", r.tok, r.user_id, i, kwargs,
           update_route(Db(tasks, nextId, now), r.tok, r.user_id, i, kwargs))

ToggleTask(r, i, arg) ==
    Handle("toggle", r.tok, r.user_id, i, arg,
           toggle_route(Db(tasks, nextId, now), r.tok, r.user_id, i, arg))

DeleteTask(r, i) ==
    Handle("delete", r.tok, r.user_id, i, "-",
           delete_route(Db(tasks, nextId, now), r.tok, r.user_id, i))

ListTasks(r, filter) ==
    Handle("list", r.tok, r.user_id, 0, filter,
           get_tasks(Db(tasks, nextId, now), r.tok, r.user_id))

\* the gunicorn workers that handle requests at the same time
Procs == {1, 2}

\* a worker between requests
Idle == [pc |-> "idle", op |-> "-", id |-> 0, arg |-> << >>,
         loaded |-> NoTask, obj |-> NoTask]

\* ------------------------------------------------- the browser at the start
\* null user / no stored user
NoUser == "-"

\* a Task object of the frontend: the row as the API returns it
Json(i, row) == [id |-> i, row |-> row]

\* undefined where a Task is expected
NoJson == Json(0, NoTask)

\* useState initial values of TasksPage; route is where the router is:
\* "start" until the effect has run
PageInit ==
    [route |-> "start", storedUser |-> NoUser, authenticated |-> FALSE,
     user |-> NoUser, tasks |-> << >>, loading |-> TRUE, error |-> "",
     showForm |-> FALSE, editingTask |-> NoJson, filter |-> "all"]

\* task?.title || "", task?.description || ""
FormData(task) ==
    [title |-> IF task = NoJson THEN EmptyStr ELSE task.row.title,
     description |-> IF task = NoJson \/ task.row.description = NoneStr
                     THEN EmptyStr ELSE task.row.description]

\* useState initial values of a TaskForm mounted with the prop task
FormInit(task) ==
    [mounted |-> TRUE, formData |-> FormData(task), loading |-> FALSE, error |-> ""]

\* no TaskForm on the page
NoForm ==
    [mounted |-> FALSE, formData |-> FormData(NoJson), loading |-> FALSE, error |-> ""]

\* the slots of the api calls awaited
Slots == 1..MaxInFlight

\* a free slot
NoReq ==
    [phase |-> "free", op |-> "-", user |-> NoUser, id |-> 0,
     data |-> FormData(NoJson), tasks |-> << >>, status |-> 0,
     row |-> NoJson, rows |-> << >>]

\* useState initial values of SignUpPage; call is its api.signup call
SignupInit ==
    [route |-> "/signup", password |-> "", loading |-> FALSE, error |-> "", call |-> "none"]

Init ==
    /\ page = PageInit
    /\ form = NoForm
    /\ items = << >>
    /\ net = [k \in Slots |-> NoReq]
    /\ signup = SignupInit
    /\ ev = [kind |-> "init", slot |-> 0, op |-> "-", ok |-> TRUE]
    /\ hist = [calls |-> 0, failed |-> FALSE, early |-> FALSE, overlap |-> FALSE]
    /\ users = Users
    /\ txn = [p \in Procs |-> Idle]
    /\ snap = Db(<< >>, 1, 0)
    /\ tasks = << >>
    /\ nextId = 1
    /\ now = 0
    /\ last = [op |-> "init", sub |-> "-", path |-> "-", id |-> 0,
               arg |-> "-", status |-> 0, store |-> FALSE, before |-> NoRow]

\* every token against every path, the owners' requests with one body each
Next ==
    \/ \E r \in Own \cup Probe, b \in CreateSent : CreateTask(r, b)
    \/ \E r \in Own, i \in TaskIds : GetTask(r, i)
    \/ \E r \in Probe : GetTask(r, 1)
    \/ \E r \in Own, i \in TaskIds : UpdateTask(r, i, "completed" :> TRUE)
    \/ \E r \in Probe : UpdateTask(r, 1, "completed" :> TRUE)
    \/ \E r \in Own, i \in TaskIds : ToggleTask(r, i, "flip")
    \/ \E r \in Probe : ToggleTask(r, 1, "flip")
    \/ \E r \in Own, i \in TaskIds : DeleteTask(r, i)
    \/ \E r \in Probe : DeleteTask(r, 1)
    \/ \E r \in Own \cup Probe : ListTasks(r, "all")

Spec == Init /\ [][Next]_vars

\* one owner, every kind of body
NextStore ==
    \/ \E b \in StoreCreateSent : CreateTask(StoreUser, b)
    \/ \E i \in TaskIds : GetTask(StoreUser, i)
    \/ \E i \in TaskIds, kw \in StoreUpdateSent : UpdateTask(StoreUser, i, kw)
    \/ \E i \in TaskIds, a \in ToggleArgs : ToggleTask(StoreUser, i, a)
    \/ \E i \in TaskIds : DeleteTask(StoreUser, i)
    \/ ListTasks(StoreUser, "all")

SpecStore == Init /\ [][NextStore]_vars

\* ------------------------------------------------------- TaskForm (browser)
\* what the title and description fields can hold: maxLength 200 and 1000
FormInputs ==
    {[title |-> t, description |-> d] :
       t \in {EmptyStr, Str(" ", 2, 0, 0), Str("X", 1, 1, 1), Str("X", 0, TitleMax, 0)},
       d \in {EmptyStr, Str("D", 1, 1, 0), Str("D", 0, DescMax, 0)}}

\* a blank description sent as the empty string
handleSubmit_EmptyDescription(formData) ==
    IF Trim(formData.title) = EmptyStr
    THEN [sent |-> FALSE, title |-> EmptyStr, description |-> NoneStr]
    ELSE [sent |-> TRUE, title |-> Trim(formData.title),
          description |-> Trim(formData.description)]

\* handleSubmit: a blank title sets the error and sends nothing; otherwise
\* the trimmed title and the trimmed description, or undefined for a blank
\* description, go to onSubmit
handleSubmit(formData) ==
    IF Trim(formData.title) = EmptyStr
    THEN [sent |-> FALSE, title |-> EmptyStr, description |-> NoneStr]
    ELSE [sent |-> TRUE, title |-> Trim(formData.title),
          description |-> IF Trim(formData.description) = EmptyStr THEN NoneStr
                          ELSE Trim(formData.description)]

\* JSON body of api.updateTask: undefined fields are left out
FormUpdateBody(d) ==
    ("title" :> d.title)
    @@ (IF d.description = NoneStr THEN << >> ELSE ("description" :> d.description))

\* the form in create mode: handleSubmit, then handleCreateTask
SubmitCreate(r, formData) ==
    LET d == handleSubmit(formData)
    IN IF d.sent
       THEN CreateTask(r, [ok |-> TRUE, title |-> d.title, description |-> d.description])
       ELSE /\ last' = [op |-> "form", sub |-> Who(r.tok), path |-> r.user_id, id |-> 0,
                        arg |-> formData, status |-> 0, store |-> FALSE, before |-> NoRow]
            /\ UNCHANGED <<users, tasks, nextId, now, txn, snap>>
            /\ UNCHANGED uiVars

\* the form in edit mode on a listed task: handleSubmit, then handleUpdateTask
SubmitUpdate(r, i, formData) ==
    LET d == handleSubmit(formData)
    IN /\ i \in DOMAIN tasks
       /\ d.sent
       /\ UpdateTask(r, i, FormUpdateBody(d))

\* requests sent to the API directly, with titles and descriptions of every
\* shape and length
ApiTitles ==
    {Str("X", 0, 1, 0), Str("X", 1, 1, 1), EmptyStr, Str(" ", 2, 0, 0),
     Str("X", 0, TitleMax, 0), Str("X", 0, TitleMax + 1, 0)}
ApiDescs ==
    {NoneStr, Str("D", 1, 1, 0), Str("D", 0, DescMax, 0), Str("D", 0, DescMax + 1, 0)}
ApiCreateBodies ==
    {[ok |-> TRUE, title |-> t, description |-> d] : t \in ApiTitles, d \in ApiDescs}
ApiUpdateBodies ==
    {("title" :> t) : t \in ApiTitles \cup {NoneStr}}
    \cup {("description" :> d) : d \in ApiDescs}
    \cup {("title" :> Str(" ", 2, 0, 0)) @@ ("completed" :> TRUE),
          ("title" :> Str("X", 0, TitleMax + 1, 0)) @@ ("completed" :> TRUE)}

\* one owner, through the form and past it
NextValid ==
    \/ \E b \in ApiCreateBodies : CreateTask(StoreUser, b)
    \/ \E i \in TaskIds, kw \in ApiUpdateBodies : UpdateTask(StoreUser, i, kw)
    \/ \E fd \in FormInputs : SubmitCreate(StoreUser, fd)
    \/ \E i \in TaskIds, fd \in FormInputs : SubmitUpdate(StoreUser, i, fd)
    \/ \E i \in TaskIds : DeleteTask(StoreUser, i)

SpecValid == Init /\ [][NextValid]_vars

\* ------------------------------------------------------- account deletion
\* what the foreign key of tasks.user_id does when a users row is deleted:
\* the CREATE TABLE statement says ON DELETE CASCADE; the Task model, from
\* which create_tables() builds the table, says foreign_key="users.id"
\* without an ondelete, which is NO ACTION
OnDelete == {"CASCADE", "NO ACTION"}

\* DELETE FROM users WHERE id = u, under either foreign key
DeleteUser(u) ==
    /\ u \in users
    /\ \E fk \in OnDelete :
         LET owned == {i \in DOMAIN tasks : tasks[i].user_id = u}
             refused == fk = "NO ACTION" /\ owned # {}
         IN /\ users' = IF refused THEN users ELSE users \ {u}
            /\ tasks' = IF refused THEN tasks
                        ELSE [i \in DOMAIN tasks \ owned |-> tasks[i]]
            /\ last' = [op |-> "deleteUser", sub |-> "-", path |-> u, id |-> 0,
                        arg |-> fk, status |-> IF refused THEN 500 ELSE 204,
                        store |-> TRUE, before |-> NoRow]
            /\ UNCHANGED <<nextId, now, txn, snap>>
            /\ UNCHANGED uiVars

\* both owners, their accounts deleted at any time; a token outlives its
\* account
NextUsers ==
    \/ \E r \in Own : CreateTaskUpTo(r, [ok |-> TRUE, title |-> Str("X", 0, 1, 0),
                                          description |-> NoneStr], MaxListRows)
    \/ \E r \in Own, i \in TaskIds : DeleteTask(r, i)
    \/ \E r \in Own, i \in TaskIds : GetTask(r, i)
    \/ \E u \in Users : DeleteUser(u)

SpecUsers == Init /\ [][NextUsers]_vars

\* ------------------------------------------- requests at the same time
\* update_task and delete_task statement by statement, each worker with
\* its own session on its own connection (READ COMMITTED): Load is the
\* select, Stamp the setattr loop and task.updated_at = datetime.utcnow(),
\* Commit the session.commit().  The requests are the owner's.
ConcRequests ==
    {[op |-> "update", arg |-> kw] :
       kw \in {("title" :> Str("Y", 0, 1, 0)) @@ ("description" :> Str("D", 0, 1, 0)),
               ("title" :> Str("X", 0, 1, 0)) @@ ("description" :> Str("E", 0, 1, 0))}}
    \cup {[op |-> "delete", arg |-> << >>]}

Ended(p, status) ==
    [op |-> txn[p].op, sub |-> Who(StoreUser.tok), path |-> StoreUser.user_id,
     id |-> txn[p].id, arg |-> txn[p].arg, status |-> status, store |-> TRUE,
     before |-> IF status = 200 THEN RowBefore(txn[p].id) ELSE NoRow]

\* statement.first(): the row as committed at this moment, or None, which
\* ends the request with 404
Load(p, r, i) ==
    /\ txn[p].pc = "idle"
    /\ \A q \in Procs : txn[q].pc # "done"
    /\ LET found == SelectTask(tasks, i, StoreUser.user_id) # {}
           t == [pc |-> IF found THEN "loaded" ELSE "done", op |-> r.op, id |-> i,
                 arg |-> r.arg, loaded |-> IF found THEN tasks[i] ELSE NoTask,
                 obj |-> IF found THEN tasks[i] ELSE NoTask]
       IN /\ txn' = [txn EXCEPT ![p] = t]
          /\ last' = IF found THEN last
                     ELSE [op |-> r.op, sub |-> Who(StoreUser.tok),
                           path |-> StoreUser.user_id, id |-> i, arg |-> r.arg,
                           status |-> 404, store |-> TRUE, before |-> NoRow]
    /\ snap' = IF \A q \in Procs : txn[q].pc = "idle" THEN Db(tasks, nextId, now) ELSE snap
    /\ UNCHANGED <<users, tasks, nextId, now>>
    /\ UNCHANGED uiVars

\* the session's object after the setattr loop and the clock reading
Stamp(p) ==
    /\ txn[p].pc = "loaded"
    /\ txn[p].op = "update"
    /\ \E t \in ClockRead(now) :
         /\ now' = t
         /\ txn' = [txn EXCEPT ![p].pc = "stamped",
                               ![p].obj = [SetAttrs(@, txn[p].arg) EXCEPT !.updated_at = t]]
    /\ UNCHANGED <<users, tasks, nextId, snap, last>>
    /\ UNCHANGED uiVars

\* the flush of session.commit(): UPDATE tasks SET <the attributes whose
\* value differs from the loaded one> WHERE id = <primary key>; it raises
\* when the row is gone
FlushUpdate(ts, t) ==
    [ts EXCEPT ![t.id] =
       [f \in DOMAIN @ |-> IF t.obj[f] # t.loaded[f] THEN t.obj[f] ELSE @[f]]]

CommitUpdate(p) ==
    /\ txn[p].pc = "stamped"
    /\ LET ok == txn[p].id \in DOMAIN tasks /\ DbAccepts(txn[p].obj)
       IN /\ tasks' = IF ok THEN FlushUpdate(tasks, txn[p]) ELSE tasks
          /\ last' = Ended(p, IF ok THEN 200 ELSE 500)
    /\ txn' = [txn EXCEPT ![p].pc = "done"]
    /\ UNCHANGED <<users, nextId, now, snap>>
    /\ UNCHANGED uiVars

\* session.delete(task); session.commit(): DELETE FROM tasks WHERE id =
\* <primary key>
CommitDelete(p) ==
    /\ txn[p].pc = "loaded"
    /\ txn[p].op = "delete"
    /\ tasks' = [i \in DOMAIN tasks \ {txn[p].id} |-> tasks[i]]
    /\ last' = Ended(p, 204)
    /\ txn' = [txn EXCEPT ![p].pc = "done"]
    /\ UNCHANGED <<users, nextId, now, snap>>
    /\ UNCHANGED uiVars

\* the owner's tasks are created while no request is in progress; then two
\* workers handle one request each
NextConc ==
    \/ /\ \A q \in Procs : txn[q].pc = "idle"
       /\ CreateTaskUpTo(StoreUser, [ok |-> TRUE, title |-> Str("X", 0, 1, 0),
                                     description |-> NoneStr], MaxListRows)
    \/ \E p \in Procs, r \in ConcRequests, i \in TaskIds : Load(p, r, i)
    \/ \E p \in Procs : Stamp(p)
    \/ \E p \in Procs : CommitUpdate(p)
    \/ \E p \in Procs : CommitDelete(p)

SpecConc == Init /\ [][NextConc]_vars

\* both owners, two rows at a time, every filter of the list route
NextList ==
    \/ \E r \in Own : CreateTaskUpTo(r, [ok |-> TRUE, title |-> Str("X", 0, 1, 0),
                                          description |-> NoneStr], MaxListRows)
    \/ \E r \in Own, i \in TaskIds : ToggleTask(r, i, "flip")
    \/ \E r \in Own, i \in TaskIds : DeleteTask(r, i)
    \/ \E r \in Own, f \in ListFilters : ListTasks(r, f)

SpecList == Init /\ [][NextList]_vars


\* ------------------------------------------------------ TasksPage (browser)
\* const filteredTasks = tasks.filter(...)
filteredTasks(pg) ==
    SelectSeq(pg.tasks, LAMBDA t : \/ pg.filter = "all"
                                   \/ pg.filter = "active" /\ ~t.row.completed
                                   \/ pg.filter = "completed" /\ t.row.completed)

\* TaskList: the To Do section, then the Completed section, each in the
\* order of its prop
TaskList(ts) ==
    SelectSeq(ts, LAMBDA t : ~t.row.completed) \o SelectSeq(ts, LAMBDA t : t.row.completed)

\* the TaskItems on the screen, top to bottom: none while the page renders
\* null or TaskList renders its spinner
Shown(pg) ==
    IF pg.user = NoUser \/ pg.loading THEN << >> ELSE TaskList(filteredTasks(pg))

\* useState(false) of a TaskItem; timers are the seconds left of its
\* pending timeouts, age the seconds since the click that armed it
FreshItem == [showConfirm |-> FALSE, timers |-> {}, age |-> 0]

\* the TaskItem instances after a render: React keeps the instance of key
\* task.id while it stays in the same section, and mounts a new one
\* otherwise; the timeouts of an unmounted instance have no effect
Render(its, pg0, pg1) ==
    LET old == {<<Shown(pg0)[k].id, Shown(pg0)[k].row.completed>> : k \in DOMAIN Shown(pg0)}
        new == Shown(pg1)
    IN [i \in {new[k].id : k \in DOMAIN new} |->
          IF \E k \in DOMAIN new : new[k].id = i /\ <<i, new[k].row.completed>> \in old
          THEN its[i] ELSE FreshItem]

\* the Task object of the list that has the id
TaskOf(pg, i) == pg.tasks[CHOOSE k \in DOMAIN pg.tasks : pg.tasks[k].id = i]

\* the api calls awaited
Awaited == {k \in Slots : net[k].phase # "free"}

\* the page can make one more api call
CanCall == Awaited # Slots /\ hist.calls < MaxCalls

\* an api method called: one request, awaited with the `tasks` of the
\* render whose handler made the call
Call(op, user, id, data, closure) ==
    LET k == CHOOSE f \in Slots \ Awaited : \A j \in Slots \ Awaited : f <= j
    IN [net EXCEPT ![k] = [phase |-> "sent", op |-> op, user |-> user, id |-> id,
                           data |-> data, tasks |-> closure, status |-> 0,
                           row |-> NoJson, rows |-> << >>]]

\* if (!user) return null
Renders(pg) == pg.user # NoUser

\* the effect without its check of the stored user
Mount_NoCheck(storedUser, auth) ==
    /\ page.route = "start"
    /\ page' = [page EXCEPT !.route = "/tasks", !.storedUser = storedUser,
                            !.authenticated = auth, !.user = storedUser,
                            !.loading = TRUE, !.error = ""]
    /\ net' = Call("list", storedUser, 0, FormData(NoJson), << >>)
    /\ hist' = [hist EXCEPT !.calls = @ + 1]
    /\ ev' = [kind |-> "mount", slot |-> 0, op |-> "-", ok |-> TRUE]
    /\ UNCHANGED <<form, items, signup>>
    /\ UNCHANGED dbVars

\* useEffect of TasksPage: the check of the stored user, then loadTasks up
\* to its await
Mount(storedUser, auth) ==
    /\ page.route = "start"
    /\ IF storedUser = NoUser \/ ~auth
       THEN /\ page' = [page EXCEPT !.route = "/signin", !.storedUser = storedUser,
                                    !.authenticated = auth]
            /\ net' = net
            /\ hist' = hist
       ELSE /\ page' = [page EXCEPT !.route = "/tasks", !.storedUser = storedUser,
                                    !.authenticated = auth, !.user = storedUser,
                                    !.loading = TRUE, !.error = ""]
            /\ net' = Call("list", storedUser, 0, FormData(NoJson), << >>)
            /\ hist' = [hist EXCEPT !.calls = @ + 1]
    /\ ev' = [kind |-> "mount", slot |-> 0, op |-> "-", ok |-> TRUE]
    /\ UNCHANGED <<form, items, signup>>
    /\ UNCHANGED dbVars

\* onClick of "+ New Task": setShowForm(true); the TaskForm mounts with
\* task={editingTask}
ClickNewTask ==
    /\ page.user # NoUser
    /\ ~page.showForm
    /\ page' = [page EXCEPT !.showForm = TRUE]
    /\ form' = FormInit(page.editingTask)
    /\ ev' = [kind |-> "other", slot |-> 0, op |-> "-", ok |-> TRUE]
    /\ UNCHANGED <<items, net, signup, hist>>
    /\ UNCHANGED dbVars

\* handleEditTask from the Edit button of a TaskItem; a mounted TaskForm
\* runs its effect on the new task prop
ClickEdit(i) ==
    /\ i \in DOMAIN items
    /\ LET task == TaskOf(page, i)
       IN /\ page' = [page EXCEPT !.editingTask = task, !.showForm = TRUE]
          /\ form' = IF ~form.mounted THEN FormInit(task)
                     ELSE IF task # page.editingTask
                     THEN [form EXCEPT !.formData = FormData(task)]
                     ELSE form
    /\ ev' = [kind |-> "other", slot |-> 0, op |-> "-", ok |-> TRUE]
    /\ UNCHANGED <<items, net, signup, hist>>
    /\ UNCHANGED dbVars

\* handleCancelForm; the Cancel button is disabled while loading
ClickCancel ==
    /\ form.mounted
    /\ ~form.loading
    /\ page' = [page EXCEPT !.showForm = FALSE, !.editingTask = NoJson]
    /\ form' = NoForm
    /\ ev' = [kind |-> "other", slot |-> 0, op |-> "-", ok |-> TRUE]
    /\ UNCHANGED <<items, net, signup, hist>>
    /\ UNCHANGED dbVars

\* onClick of a filter tab
SetFilter(f) ==
    /\ page.user # NoUser
    /\ f # page.filter
    /\ page' = [page EXCEPT !.filter = f]
    /\ items' = Render(items, page, page')
    /\ ev' = [kind |-> "other", slot |-> 0, op |-> "-", ok |-> TRUE]
    /\ UNCHANGED <<form, net, signup, hist>>
    /\ UNCHANGED dbVars

\* what is typed in the fields of the form
TypedTitles == {Str("X", 1, 1, 1), Str(" ", 2, 0, 0)}
TypedDescriptions == {EmptyStr, Str("D", 1, 1, 0)}

\* onChange of the title input, which is disabled while loading
TypeTitle(t) ==
    /\ form.mounted
    /\ ~form.loading
    /\ t # form.formData.title
    /\ form' = [form EXCEPT !.formData.title = t]
    /\ ev' = [kind |-> "other", slot |-> 0, op |-> "-", ok |-> TRUE]
    /\ UNCHANGED <<page, items, net, signup, hist>>
    /\ UNCHANGED dbVars

\* onChange of the description textarea, which is disabled while loading
TypeDescription(d) ==
    /\ form.mounted
    /\ ~form.loading
    /\ d # form.formData.description
    /\ form' = [form EXCEPT !.formData.description = d]
    /\ ev' = [kind |-> "other", slot |-> 0, op |-> "-", ok |-> TRUE]
    /\ UNCHANGED <<page, items, net, signup, hist>>
    /\ UNCHANGED dbVars

\* a form whose controls are never disabled
SubmitEnabled_Always(f) == TRUE

\* the submit button and the inputs are disabled while loading, so no
\* submit event reaches the form; the button's other condition, a blank
\* title, is tested again by handleSubmit
SubmitEnabled(f) == ~f.loading

\* the creates awaited that the server has not handled yet
PendingCreates == {k \in Slots : net[k].phase = "sent" /\ net[k].op = "create"}

\* handleSubmit of TaskForm up to its await: onSubmit is handleUpdateTask
\* when the page rendered the form with an editingTask, else
\* handleCreateTask, and each calls the api once
Submit ==
    /\ form.mounted
    /\ SubmitEnabled(form)
    /\ LET d == handleSubmit(form.formData)
           data == [title |-> d.title, description |-> d.description]
       IN IF ~d.sent
          THEN /\ form' = [form EXCEPT !.error = "Title is required"]
               /\ net' = net
               /\ hist' = hist
               /\ ev' = [kind |-> "submit", slot |-> 0, op |-> "-", ok |-> FALSE]
          ELSE /\ CanCall
               /\ form' = [form EXCEPT !.error = "", !.loading = TRUE]
               /\ IF page.editingTask # NoJson
                  THEN /\ net' = Call("update", page.user, page.editingTask.id, data, page.tasks)
                       /\ ev' = [kind |-> "submit", slot |-> 0, op |-> "update", ok |-> TRUE]
                  ELSE /\ nextId + Cardinality(PendingCreates) <= MaxIds
                       /\ Cardinality(DOMAIN tasks) + Cardinality(PendingCreates) < MaxListRows
                       /\ net' = Call("create", page.user, 0, data, page.tasks)
                       /\ ev' = [kind |-> "submit", slot |-> 0, op |-> "create", ok |-> TRUE]
               /\ hist' = [hist EXCEPT !.calls = @ + 1, !.early = @ \/ page.loading,
                                        !.overlap = @ \/ Awaited # {}]
    /\ UNCHANGED <<page, items, signup>>
    /\ UNCHANGED dbVars

\* handleToggleComplete from the checkbox of a TaskItem, up to its await
ClickToggle(i) ==
    /\ i \in DOMAIN items
    /\ CanCall
    /\ net' = Call("toggle", page.user, i, FormData(NoJson), page.tasks)
    /\ hist' = [hist EXCEPT !.calls = @ + 1, !.overlap = @ \/ Awaited # {}]
    /\ ev' = [kind |-> "toggle", slot |-> i, op |-> "toggle", ok |-> TRUE]
    /\ UNCHANGED <<page, form, items, signup>>
    /\ UNCHANGED dbVars

\* handleDelete without its confirmation: every click calls onDelete
ClickDelete_NoConfirm(i) ==
    /\ i \in DOMAIN items
    /\ CanCall
    /\ net' = Call("delete", page.user, i, FormData(NoJson), page.tasks)
    /\ hist' = [hist EXCEPT !.calls = @ + 1, !.overlap = @ \/ Awaited # {}]
    /\ items' = [items EXCEPT ![i].showConfirm = FALSE, ![i].age = 0]
    /\ ev' = [kind |-> "delete", slot |-> i, op |-> "delete", ok |-> TRUE]
    /\ UNCHANGED <<page, form, signup>>
    /\ UNCHANGED dbVars

\* handleDelete of TaskItem: the first click arms the confirmation and
\* starts a timeout, a click while armed calls onDelete (handleDeleteTask
\* up to its await)
ClickDelete(i) ==
    /\ i \in DOMAIN items
    /\ IF items[i].showConfirm
       THEN /\ CanCall
            /\ net' = Call("delete", page.user, i, FormData(NoJson), page.tasks)
            /\ hist' = [hist EXCEPT !.calls = @ + 1, !.overlap = @ \/ Awaited # {}]
            /\ items' = [items EXCEPT ![i].showConfirm = FALSE, ![i].age = 0]
            /\ ev' = [kind |-> "delete", slot |-> i, op |-> "delete", ok |-> TRUE]
       ELSE /\ net' = net
            /\ hist' = hist
            /\ items' = [items EXCEPT ![i].showConfirm = TRUE, ![i].age = 0,
                                      ![i].timers = @ \cup {ConfirmSecs}]
            /\ ev' = [kind |-> "delete", slot |-> i, op |-> "-", ok |-> TRUE]
    /\ UNCHANGED <<page, form, signup>>
    /\ UNCHANGED dbVars

\* a timeout of a TaskItem is due: setShowConfirm(false)
Timeout(i) ==
    /\ i \in DOMAIN items
    /\ 0 \in items[i].timers
    /\ items' = [items EXCEPT ![i].showConfirm = FALSE, ![i].age = 0,
                              ![i].timers = @ \ {0}]
    /\ ev' = [kind |-> "timeout", slot |-> i, op |-> "-", ok |-> items[i].showConfirm]
    /\ UNCHANGED <<page, form, net, signup, hist>>
    /\ UNCHANGED dbVars

\* a second passes: no timeout is due and some timeout is pending
Tick ==
    /\ \E i \in DOMAIN items : items[i].timers # {}
    /\ \A i \in DOMAIN items : 0 \notin items[i].timers
    /\ items' = [i \in DOMAIN items |->
                   [items[i] EXCEPT !.timers = {t - 1 : t \in @},
                                    !.age = IF items[i].showConfirm THEN @ + 1 ELSE @]]
    /\ ev' = [kind |-> "other", slot |-> 0, op |-> "-", ok |-> TRUE]
    /\ UNCHANGED <<page, form, net, signup, hist>>
    /\ UNCHANGED dbVars

\* ------------------------------------------------------------ the api calls
\* the route a call of the api client reaches, with the token of the user
\* signed in
Route(db, r) ==
    IF r.op = "list" THEN get_tasks(db, ValidToken(r.user), r.user)
    ELSE IF r.op = "create"
    THEN ForeignKey(users, db, create_task(db, ValidToken(r.user), r.user,
                                           [ok |-> TRUE, title |-> r.data.title,
                                            description |-> r.data.description]))
    ELSE IF r.op = "update"
    THEN update_route(db, ValidToken(r.user), r.user, r.id, FormUpdateBody(r.data))
    ELSE IF r.op = "toggle"
    THEN toggle_route(db, ValidToken(r.user), r.user, r.id, "flip")
    ELSE delete_route(db, ValidToken(r.user), r.user, r.id)

\* the request may not reach the server, and the response may not reach the
\* browser: the call rejects, status 0
Transport(db, outs) ==
    outs \cup {Refuse(db, 0)}
         \cup {[o EXCEPT !.status = 0, !.id = 0, !.row = NoTask] : o \in outs}

\* the server handles an awaited request while the clock moves on by one
\* of ticks
Serve(k, ticks) ==
    /\ net[k].phase = "sent"
    /\ LET r == net[k]
           db == Db(tasks, nextId, now)
       IN \E o \in Transport(db, Route(db, r)) :
            \E s \in (IF r.op = "list" /\ o.status = 200
                      THEN get_user_tasks(o.tasks, r.user) ELSE {<< >>}) :
              /\ o.now - now \in ticks
              /\ tasks' = o.tasks
              /\ nextId' = o.nextId
              /\ now' = o.now
              /\ last' = [op |-> r.op, sub |-> r.user, path |-> r.user,
                          id |-> IF r.op = "create" THEN o.id ELSE r.id,
                          arg |-> r.data, status |-> o.status, store |-> o.store,
                          before |-> IF o.status = 200 /\ r.op \in {"update", "toggle"}
                                     THEN RowBefore(r.id) ELSE NoRow]
              /\ net' = [net EXCEPT ![k].phase = "served", ![k].status = o.status,
                                    ![k].row = IF o.row = NoTask THEN NoJson
                                               ELSE Json(o.id, o.row),
                                    ![k].rows = [j \in DOMAIN s |-> Json(s[j], o.tasks[s[j]])]]
    /\ ev' = [kind |-> "serve", slot |-> k, op |-> net[k].op, ok |-> TRUE]
    /\ UNCHANGED <<users, txn, snap, page, form, items, signup, hist>>

\* the promise of the api call resolves on a 2xx response and rejects
\* otherwise
Resolved(r) == r.status \in {200, 201, 204}

\* tasks.map((t) => (t.id === updatedTask.id ? updatedTask : t))
MapReplace(ts, updatedTask) ==
    [j \in DOMAIN ts |-> IF ts[j].id = updatedTask.id THEN updatedTask ELSE ts[j]]

\* tasks.filter((t) => t.id !== taskId)
FilterOut(ts, taskId) == SelectSeq(ts, LAMBDA t : t.id # taskId)

\* loadTasks without its finally block
Continue_NoFinally(pg, r) ==
    IF r.op = "list"
    THEN IF Resolved(r) THEN [pg EXCEPT !.tasks = r.rows, !.loading = FALSE]
         ELSE [pg EXCEPT !.error = "error"]
    ELSE IF r.op = "create"
    THEN IF Resolved(r) THEN [pg EXCEPT !.tasks = <<r.row>> \o r.tasks, !.showForm = FALSE]
         ELSE pg
    ELSE IF r.op = "update"
    THEN IF Resolved(r)
         THEN [pg EXCEPT !.tasks = MapReplace(r.tasks, r.row), !.editingTask = NoJson,
                         !.showForm = FALSE]
         ELSE pg
    ELSE IF r.op = "toggle"
    THEN IF Resolved(r) THEN [pg EXCEPT !.tasks = MapReplace(r.tasks, r.row)]
         ELSE [pg EXCEPT !.error = "error"]
    ELSE IF Resolved(r) THEN [pg EXCEPT !.tasks = FilterOut(r.tasks, r.id)]
         ELSE [pg EXCEPT !.error = "error"]

\* the page after the continuation of loadTasks, handleCreateTask,
\* handleUpdateTask, handleToggleComplete or handleDeleteTask: r.tasks is
\* the `tasks` the handler closed over
Continue(pg, r) ==
    IF r.op = "list"
    THEN IF Resolved(r) THEN [pg EXCEPT !.tasks = r.rows, !.loading = FALSE]
         ELSE [pg EXCEPT !.error = "error", !.loading = FALSE]
    ELSE IF r.op = "create"
    THEN IF Resolved(r) THEN [pg EXCEPT !.tasks = <<r.row>> \o r.tasks, !.showForm = FALSE]
         ELSE pg
    ELSE IF r.op = "update"
    THEN IF Resolved(r)
         THEN [pg EXCEPT !.tasks = MapReplace(r.tasks, r.row), !.editingTask = NoJson,
                         !.showForm = FALSE]
         ELSE pg
    ELSE IF r.op = "toggle"
    THEN IF Resolved(r) THEN [pg EXCEPT !.tasks = MapReplace(r.tasks, r.row)]
         ELSE [pg EXCEPT !.error = "error"]
    ELSE IF Resolved(r) THEN [pg EXCEPT !.tasks = FilterOut(r.tasks, r.id)]
         ELSE [pg EXCEPT !.error = "error"]

\* handleSubmit of TaskForm after its await: the fields are reset when
\* onSubmit returned, the error is set when it threw, loading ends either
\* way; nothing of it is left when the page has unmounted the form
SubmitDone(f, pg, r) ==
    IF ~pg.showForm THEN NoForm
    ELSE IF Resolved(r)
    THEN [f EXCEPT !.formData = FormData(NoJson), !.loading = FALSE]
    ELSE [f EXCEPT !.error = "error", !.loading = FALSE]

\* the response handled as a failure is followed by the same request again
Receive_Retry(k) ==
    /\ net[k].phase = "served"
    /\ page' = Continue(page, net[k])
    /\ form' = IF net[k].op \in {"create", "update"}
               THEN SubmitDone(form, page', net[k]) ELSE form
    /\ items' = Render(items, page, page')
    /\ net' = [net EXCEPT ![k] = IF Resolved(net[k]) THEN NoReq
                                 ELSE [net[k] EXCEPT !.phase = "sent", !.status = 0]]
    /\ hist' = [hist EXCEPT !.failed = @ \/ ~Resolved(net[k])]
    /\ ev' = [kind |-> "receive", slot |-> k, op |-> net[k].op, ok |-> Resolved(net[k])]
    /\ UNCHANGED signup
    /\ UNCHANGED dbVars

\* the response of an awaited call arrives and its handler runs to its end
Receive(k) ==
    /\ net[k].phase = "served"
    /\ page' = Continue(page, net[k])
    /\ form' = IF net[k].op \in {"create", "update"}
               THEN SubmitDone(form, page', net[k]) ELSE form
    /\ items' = Render(items, page, page')
    /\ net' = [net EXCEPT ![k] = NoReq]
    /\ hist' = [hist EXCEPT !.failed = @ \/ ~Resolved(net[k])]
    /\ ev' = [kind |-> "receive", slot |-> k, op |-> net[k].op, ok |-> Resolved(net[k])]
    /\ UNCHANGED signup
    /\ UNCHANGED dbVars

\* a task the user has created in an earlier session, while the clock
\* moved on by one of ticks
EarlierCreate(r, body, ticks) ==
    /\ page.route = "start"
    /\ CreateTaskUpTo(r, body, MaxListRows)
    /\ now' - now \in ticks

\* the task of the earlier sessions
EarlierBody ==
    [ok |-> TRUE, title |-> Str("X", 0, 1, 0), description |-> Str("D", 0, 1, 0)]

\* the tasks page of user A, signed in, on its "all" tab: every write of
\* the page, within the seconds of a confirmation and of one clock reading
NextPage ==
    \/ EarlierCreate(StoreUser, EarlierBody, {0})
    \/ Mount("A", TRUE)
    \/ ClickNewTask
    \/ \E i \in TaskIds : ClickEdit(i)
    \/ TypeTitle(Str("X", 1, 1, 1))
    \/ Submit
    \/ \E i \in TaskIds : ClickToggle(i)
    \/ \E i \in TaskIds : ClickDelete(i)
    \/ \E k \in Slots : Serve(k, {0})
    \/ \E k \in Slots : Receive(k)

SpecPage == Init /\ [][NextPage]_vars

\* the form of the tasks page: every way to open, fill, submit and cancel it
NextForm ==
    \/ EarlierCreate(StoreUser, EarlierBody, {0})
    \/ Mount("A", TRUE)
    \/ ClickNewTask
    \/ \E i \in TaskIds : ClickEdit(i)
    \/ ClickCancel
    \/ \E t \in TypedTitles : TypeTitle(t)
    \/ \E d \in TypedDescriptions : TypeDescription(d)
    \/ Submit
    \/ \E k \in Slots : Serve(k, {0})
    \/ \E k \in Slots : Receive(k)

SpecForm == Init /\ [][NextForm]_vars

\* the Delete buttons of the listed tasks, second by second
NextItem ==
    \/ EarlierCreate(StoreUser, EarlierBody, {0})
    \/ Mount("A", TRUE)
    \/ \E i \in TaskIds : ClickDelete(i)
    \/ \E i \in TaskIds : Timeout(i)
    \/ Tick
    \/ \E k \in Slots : Serve(k, {0})
    \/ \E k \in Slots : Receive(k)

SpecItem == Init /\ [][NextItem]_vars

\* the tasks page opened with any stored user, signed in or not, on a
\* database that holds tasks of both users
NextAuth ==
    \/ \E r \in Own : EarlierCreate(r, EarlierBody, {0})
    \/ \E u \in Users \cup {NoUser}, auth \in BOOLEAN : Mount(u, auth)
    \/ \E k \in Slots : Serve(k, {0})
    \/ \E k \in Slots : Receive(k)

SpecAuth == Init /\ [][NextAuth]_vars

\* the list of the tasks page: tasks created at different times, their
\* checkboxes and the filter tabs
NextShow ==
    \/ EarlierCreate(StoreUser, EarlierBody, {0, 1})
    \/ Mount("A", TRUE)
    \/ \E i \in TaskIds : ClickToggle(i)
    \/ \E f \in {"all", "active", "completed"} : SetFilter(f)
    \/ \E k \in Slots : Serve(k, {0, 1})
    \/ \E k \in Slots : Receive(k)

SpecShow == Init /\ [][NextShow]_vars

\* the checkboxes and Delete buttons of the listed tasks, clicked while
\* earlier calls are awaited
NextRace ==
    \/ EarlierCreate(StoreUser, EarlierBody, {0})
    \/ Mount("A", TRUE)
    \/ \E i \in TaskIds : ClickToggle(i)
    \/ \E i \in TaskIds : ClickDelete(i)
    \/ \E k \in Slots : Serve(k, {0})
    \/ \E k \in Slots : Receive(k)

SpecRace == Init /\ [][NextRace]_vars

\* ------------------------------------------------------- SignUpPage (browser)
\* what is typed in the password field
TypedPasswords == {"weak", "Strong1!"}

\* validatePassword(password).valid
validatePassword(password) == password = "Strong1!"

\* handlePasswordChange; the field is disabled while loading
SignupType(p) ==
    /\ signup.route = "/signup"
    /\ ~signup.loading
    /\ p # signup.password
    /\ signup' = [signup EXCEPT !.password = p]
    /\ ev' = [kind |-> "other", slot |-> 0, op |-> "-", ok |-> TRUE]
    /\ UNCHANGED <<page, form, items, net, hist>>
    /\ UNCHANGED dbVars

\* handleSubmit of SignUpPage up to its await; the button is disabled while
\* loading
SignupSubmit ==
    /\ signup.route = "/signup"
    /\ ~signup.loading
    /\ IF ~validatePassword(signup.password)
       THEN signup' = [signup EXCEPT !.error = "Please fix password errors"]
       ELSE signup' = [signup EXCEPT !.error = "", !.loading = TRUE, !.call = "awaited"]
    /\ ev' = [kind |-> "signup", slot |-> 0, op |-> "-",
              ok |-> validatePassword(signup.password)]
    /\ UNCHANGED <<page, form, items, net, hist>>
    /\ UNCHANGED dbVars

\* api.signup returns: router.push("/tasks") when it resolved, the error
\* when it rejected, and setLoading(false) in finally
SignupReturn(resolved) ==
    /\ signup.call = "awaited"
    /\ signup' = IF resolved
                 THEN [signup EXCEPT !.route = "/tasks", !.loading = FALSE, !.call = "none"]
                 ELSE [signup EXCEPT !.error = "error", !.loading = FALSE, !.call = "none"]
    /\ ev' = [kind |-> "signedup", slot |-> 0, op |-> "-", ok |-> resolved]
    /\ UNCHANGED <<page, form, items, net, hist>>
    /\ UNCHANGED dbVars

\* the loads and submissions of the pages
NextLive ==
    \/ Mount("A", TRUE)
    \/ ClickNewTask
    \/ \E t \in TypedTitles : TypeTitle(t)
    \/ Submit
    \/ \E k \in Slots : Serve(k, {0})
    \/ \E k \in Slots : Receive(k)
    \/ \E p \in TypedPasswords : SignupType(p)
    \/ SignupSubmit
    \/ \E resolved \in BOOLEAN : SignupReturn(resolved)

\* every awaited call returns: the promise of an api call settles
SpecLive ==
    /\ Init
    /\ [][NextLive]_vars
    /\ \A k \in Slots : WF_vars(Serve(k, {0})) /\ WF_vars(Receive(k))
    /\ WF_vars(\E resolved \in BOOLEAN : SignupReturn(resolved))

\* ================================================================= claims
Cur == Db(tasks, nextId, now)

\* the outcomes of every request on task i: get, update with any body,
\* toggle with any body, delete
RowOutcomes(db, tok, p, i) ==
    get_route(db, tok, p, i)
    \cup UNION {update_route(db, tok, p, i, kw) : kw \in UpdateBodies}
    \cup UNION {toggle_route(db, tok, p, i, a) : a \in ToggleArgs}
    \cup delete_route(db, tok, p, i)

\* the outcomes of every request whose body parses
ParsedOutcomes(db, tok, p) ==
    UNION {create_task(db, tok, p, b) : b \in CreateBodies \ {BadBody}}
    \cup UNION {RowOutcomes(db, tok, p, i) : i \in TaskIds}
    \cup get_tasks(db, tok, p)

AllOutcomes(db, tok, p) ==
    ParsedOutcomes(db, tok, p) \cup create_task(db, tok, p, BadBody)

\* C1: a get, update, toggle or delete of a task by a user who is not its
\* owner ends in 403 (the path names the owner) or 404 (the path names the
\* caller); it returns no task and leaves the table as it was.
C1_Isolation ==
    \A i \in DOMAIN tasks : \A b \in Users \ {tasks[i].user_id} : \A p \in Users :
      \A o \in RowOutcomes(Cur, ValidToken(b), p, i) :
        /\ o.status \in {403, 404}
        /\ o.status = 403 <=> p # b
        /\ o.row = NoTask
        /\ o.tasks = tasks

C1_Witness ==
    /\ last.op = "delete"
    /\ last.sub \in Users
    /\ last.id \in DOMAIN tasks
    /\ tasks[last.id].user_id # last.sub
    /\ last.status \in {403, 404}

C3_Original ==
    last.sub \in {"none", "malformed", "expired", "nosub"} => last.status = 401

\* C4: a request that ends in 401 or 403 has not used the store and leaves
\* the table, the id sequence and the clock as they were.
C4_RefusedLeavesState ==
    \A tok \in TokenInputs, p \in Users :
      \A o \in AllOutcomes(Cur, tok, p) :
        o.status \in {401, 403} =>
          /\ ~o.store
          /\ o.tasks = tasks
          /\ o.nextId = nextId
          /\ o.now = now

C4_Witness ==
    /\ last.op \in {"update", "toggle", "delete"}
    /\ last.status = 401
    /\ last.id \in DOMAIN tasks
    /\ ~last.store

\* what user b sees of an outcome: the response and b's own rows
Mine(ts, b) == [i \in {j \in DOMAIN ts : ts[j].user_id = b} |-> ts[i]]
View(outs, b) ==
    {[status |-> o.status, id |-> o.id, row |-> o.row, mine |-> Mine(o.tasks, b)] :
       o \in outs}

\* C5: for a caller b, a request on a task that exists and belongs to
\* another user has the outcome of the same request on an id that does not
\* exist, 404 without a task; and every request of b has the outcome it
\* has on the table without the other users' rows.
C5_NoLeak ==
    \A b \in Users :
      LET tok == ValidToken(b)
          alone == Db(Mine(tasks, b), nextId, now)
      IN /\ \A i \in DOMAIN tasks, j \in TaskIds \ DOMAIN tasks :
              tasks[i].user_id # b =>
                /\ \A o \in RowOutcomes(Cur, tok, b, i) :
                     o.status = 404 /\ o.row = NoTask /\ o.tasks = tasks
                /\ View(get_route(Cur, tok, b, i), b) = View(get_route(Cur, tok, b, j), b)
                /\ View(delete_route(Cur, tok, b, i), b) = View(delete_route(Cur, tok, b, j), b)
                /\ \A kw \in UpdateBodies :
                     View(update_route(Cur, tok, b, i, kw), b)
                       = View(update_route(Cur, tok, b, j, kw), b)
                /\ \A a \in ToggleArgs :
                     View(toggle_route(Cur, tok, b, i, a), b)
                       = View(toggle_route(Cur, tok, b, j, a), b)
         /\ \A i \in TaskIds :
              /\ View(get_route(Cur, tok, b, i), b) = View(get_route(alone, tok, b, i), b)
              /\ View(delete_route(Cur, tok, b, i), b) = View(delete_route(alone, tok, b, i), b)
              /\ \A kw \in UpdateBodies :
                   View(update_route(Cur, tok, b, i, kw), b)
                     = View(update_route(alone, tok, b, i, kw), b)
              /\ \A a \in ToggleArgs :
                   View(toggle_route(Cur, tok, b, i, a), b)
                     = View(toggle_route(alone, tok, b, i, a), b)

C5_Witness ==
    /\ last.op = "get"
    /\ last.sub \in Users
    /\ last.path = last.sub
    /\ last.status = 404
    /\ last.id \in DOMAIN tasks

\* the database after an outcome
After(o) == Db(o.tasks, o.nextId, o.now)

\* C6: after a successful create, a get of the new task by its owner
\* returns it with completed = false and created_at equal to updated_at.
C6_Original ==
    (last.op = "create" /\ last.status = 201) =>
      \A o \in get_route(Cur, ValidToken(last.path), last.path, last.id) :
        /\ o.status = 200
        /\ o.row.completed = FALSE
        /\ o.row.created_at = o.row.updated_at

\* C7: a successful update by the owner sets each supplied field of title,
\* description and completed to the supplied value, leaves the fields not
\* supplied, the owner, the id and created_at as they were, leaves every
\* other row as it was, and a following get returns the row so written.
C7_UpdateSupplied ==
    \A i \in DOMAIN tasks : \A kw \in UpdateBodies :
      LET u == tasks[i].user_id IN
      \A o \in update_route(Cur, ValidToken(u), u, i, kw) :
        o.status = 200 =>
          /\ DOMAIN o.tasks = DOMAIN tasks
          /\ \A j \in DOMAIN tasks \ {i} : o.tasks[j] = tasks[j]
          /\ \A f \in {"title", "description", "completed"} :
               o.tasks[i][f] = IF f \in DOMAIN kw THEN kw[f] ELSE tasks[i][f]
          /\ o.tasks[i].user_id = u
          /\ o.tasks[i].created_at = tasks[i].created_at
          /\ o.id = i
          /\ \A g \in get_route(After(o), ValidToken(u), u, i) :
               g.status = 200 /\ g.id = i /\ g.row = o.tasks[i]

C7_Witness ==
    /\ last.op = "update"
    /\ last.status = 200
    /\ last.before.found
    /\ last.before.completed # tasks[last.id].completed
    /\ tasks[last.id].description # NoneStr

\* C8 as stated: a toggle without a value flips completed and moves
\* updated_at strictly forward, and two such toggles in a row restore
\* completed.
C8_Original ==
    /\ (last.op = "toggle" /\ last.arg = "flip" /\ last.status = 200) =>
         /\ tasks[last.id].completed = ~last.before.completed
         /\ tasks[last.id].updated_at > last.before.updated_at
    /\ \A i \in DOMAIN tasks :
         LET u == tasks[i].user_id IN
         \A o1 \in toggle_route(Cur, ValidToken(u), u, i, "flip") :
           \A o2 \in toggle_route(After(o1), ValidToken(u), u, i, "flip") :
             o2.status = 200 /\ o2.row.completed = tasks[i].completed

\* C8: a toggle without a value by the owner flips completed and sets
\* updated_at to the clock reading taken during the call, whether or not
\* the clock has moved since the previous write; it changes nothing else,
\* and two such toggles in a row restore completed.
C8_ToggleFlips ==
    \A i \in DOMAIN tasks :
      LET u == tasks[i].user_id IN
      \A o1 \in toggle_route(Cur, ValidToken(u), u, i, "flip") :
        /\ o1.status = 200
        /\ o1.tasks = [tasks EXCEPT ![i].completed = ~@, ![i].updated_at = o1.now]
        /\ o1.row = o1.tasks[i]
        /\ \A o2 \in toggle_route(After(o1), ValidToken(u), u, i, "flip") :
             /\ o2.status = 200
             /\ o2.tasks = [tasks EXCEPT ![i].updated_at = o2.now]
             /\ o2.row = o2.tasks[i]

C8_Witness ==
    /\ last.op = "toggle"
    /\ last.arg = "flip"
    /\ last.status = 200
    /\ last.before.found
    /\ tasks[last.id].completed = ~last.before.completed
    /\ tasks[last.id].updated_at = last.before.updated_at
    /\ now < MaxClock

\* C9: a toggle by the owner with an explicit value sets completed to that
\* value whatever it was, and the same request again leaves completed as
\* it is; the toggle without a value negates completed.
C9_ToggleExplicit ==
    \A i \in DOMAIN tasks :
      LET u == tasks[i].user_id IN
      /\ \A a \in {"true", "false"} :
           \A o1 \in toggle_route(Cur, ValidToken(u), u, i, a) :
             /\ o1.status = 200
             /\ o1.tasks[i].completed = (a = "true")
             /\ o1.row.completed = (a = "true")
             /\ \A o2 \in toggle_route(After(o1), ValidToken(u), u, i, a) :
                  /\ o2.status = 200
                  /\ o2.tasks[i].completed = o1.tasks[i].completed
      /\ \A o \in toggle_route(Cur, ValidToken(u), u, i, "flip") :
           o.status = 200 /\ o.tasks[i].completed = ~tasks[i].completed

C9_Witness ==
    /\ last.op = "toggle"
    /\ last.arg = "true"
    /\ last.status = 200
    /\ last.before.found
    /\ last.before.completed
    /\ tasks[last.id].completed

\* an id that has been handed out and names no row
Gone(i) == i < nextId /\ i \notin DOMAIN tasks

\* every request of a user on id i under the user's own path ends in 404
\* and changes no row, and no listing of the user holds i
NotFoundFor(i) ==
    \A u \in Users :
      /\ \A o \in RowOutcomes(Cur, ValidToken(u), u, i) :
           o.status = 404 /\ o.row = NoTask /\ o.tasks = tasks
      /\ \A s \in get_user_tasks(tasks, u) \cup get_incomplete_tasks(tasks, u) :
           \A k \in 1..Len(s) : s[k] # i

\* C10: once a delete of a task by its owner has ended in 204, the id
\* names no row in any later state: every later get, update, toggle and
\* delete of it ends in 404, a repeated delete included, and no listing
\* holds it.
C10_DeletePermanent ==
    /\ [](\A i \in TaskIds : Gone(i) => NotFoundFor(i))
    /\ [][\A i \in TaskIds :
            (Gone(i) \/ (last'.op = "delete" /\ last'.status = 204 /\ last'.id = i))
              => (Gone(i))']_vars

C10_Witness ==
    /\ last.op = "delete"
    /\ last.status = 404
    /\ last.sub = last.path
    /\ Gone(last.id)
    /\ tasks # << >>

\* the rows of user u that a filter of the list route asks for
Matching(u, f) ==
    {i \in DOMAIN tasks :
       /\ tasks[i].user_id = u
       /\ f = "all" \/ tasks[i].completed = (f = "true")}

C12_Original ==
    \A u \in Users, f \in ListFilters :
      \A s \in list_tasks(tasks, u, f) :
        \A i, j \in 1..Len(s) :
          i < j => tasks[s[i]].created_at >= tasks[s[j]].created_at

\* the rules of the task fields: title of 1..200 characters after
\* trimming, description absent or of at most 1000 characters after trimming
ValidTitle(s) == s # NoneStr /\ Trim(s).core >= 1 /\ Trim(s).core <= TitleMax
ValidDesc(s) == s = NoneStr \/ Trim(s).core <= DescMax
ValidFields(f) ==
    /\ "title" \in DOMAIN f => ValidTitle(f.title)
    /\ "description" \in DOMAIN f => ValidDesc(f.description)

\* C13: a create by the owner succeeds exactly when its title and
\* description satisfy the rules, and an update of an existing task by the
\* owner succeeds exactly when the title and description it supplies do;
\* the others are rejected.
C13_Original ==
    /\ (last.op = "create" /\ last.sub = last.path /\ last.sub \in Users /\ last.arg.ok) =>
         (last.status = 201 <=> ValidFields(last.arg))
    /\ (last.op = "update" /\ last.sub = last.path /\ last.sub \in Users
          /\ last.status # 404) =>
         (last.status = 200 <=> ValidFields(last.arg))

\* C14: every stored task has a title without leading or trailing
\* whitespace and of 1..200 characters, and a description that is absent
\* or without leading or trailing whitespace and of at most 1000 characters.
C14_Original ==
    \A i \in DOMAIN tasks :
      /\ tasks[i].title # NoneStr
      /\ tasks[i].title.lead = 0 /\ tasks[i].title.trail = 0
      /\ tasks[i].title.core >= 1 /\ tasks[i].title.core <= TitleMax
      /\ \/ tasks[i].description = NoneStr
         \/ /\ tasks[i].description.lead = 0 /\ tasks[i].description.trail = 0
            /\ tasks[i].description.core <= DescMax

\* C15: a create or update by the owner that does not succeed, whether the
\* body does not parse, the task is not found or the commit fails, leaves
\* every row as it was and adds none; a failed update has written none of
\* the fields it supplied and not updated_at.
C15_FailedWriteNoChange ==
    \A u \in Users :
      /\ \A b \in ApiCreateBodies \cup CreateBodies :
           \A o \in create_task(Cur, ValidToken(u), u, b) :
             o.status # 201 => o.tasks = tasks
      /\ \A i \in TaskIds : \A kw \in ApiUpdateBodies \cup UpdateBodies :
           \A o \in update_route(Cur, ValidToken(u), u, i, kw) :
             o.status # 200 => o.tasks = tasks

C15_Witness ==
    /\ last.op = "update"
    /\ last.status = 500
    /\ last.id \in DOMAIN tasks
    /\ "completed" \in DOMAIN last.arg
    /\ ~tasks[last.id].completed
    /\ tasks[last.id].updated_at < now

\* C16: every stored task has updated_at >= created_at; no step changes
\* the created_at of a task or moves its updated_at back, and a successful
\* update or toggle leaves in updated_at a clock reading that is not
\* before the one it replaces.
C16_Original ==
    /\ [](\A i \in DOMAIN tasks : tasks[i].updated_at >= tasks[i].created_at)
    /\ [][\A i \in DOMAIN tasks \cap DOMAIN tasks' :
            /\ tasks'[i].created_at = tasks[i].created_at
            /\ tasks'[i].updated_at >= tasks[i].updated_at
            /\ (last'.op \in {"update", "toggle"} /\ last'.status = 200 /\ last'.id = i)
                 => tasks'[i].updated_at <= now']_vars

\* C17: no request changes the user_id of a task: not an update by the
\* owner with any body, not a toggle, not any request that is sent.
C17_OwnerFixed ==
    /\ [](\A i \in DOMAIN tasks :
            LET u == tasks[i].user_id IN
            /\ \A kw \in UpdateBodies :
                 \A o \in update_route(Cur, ValidToken(u), u, i, kw) :
                   i \in DOMAIN o.tasks /\ o.tasks[i].user_id = u
            /\ \A a \in ToggleArgs :
                 \A o \in toggle_route(Cur, ValidToken(u), u, i, a) :
                   i \in DOMAIN o.tasks /\ o.tasks[i].user_id = u)
    /\ [][\A i \in DOMAIN tasks \cap DOMAIN tasks' :
            tasks'[i].user_id = tasks[i].user_id]_vars

C17_Witness ==
    /\ last.op = "update"
    /\ last.status = 200
    /\ last.arg = ("completed" :> TRUE)
    /\ last.before.found
    /\ tasks[last.id].user_id = last.path

\* C18: the id a create assigns is the next value of the sequence, which
\* is greater than the id of every task that exists or has existed; the
\* sequence never goes back, whoever creates and whatever is deleted.
C18_IdsNeverReused ==
    /\ [](\A i \in DOMAIN tasks : i < nextId)
    /\ [][/\ nextId' >= nextId
          /\ \A i \in DOMAIN tasks' \ DOMAIN tasks : i >= nextId
          /\ (last'.op = "create" /\ last'.status = 201) =>
               /\ last'.id = nextId
               /\ nextId' = nextId + 1
               /\ DOMAIN tasks' = DOMAIN tasks \cup {nextId}]_vars

C18_Witness ==
    /\ last.op = "create"
    /\ last.status = 201
    /\ last.id = 2
    /\ 1 \notin DOMAIN tasks
    /\ DOMAIN tasks = {2}
    /\ nextId = 3

\* C19: every stored task references a user that exists, and the deletion
\* of a user removes the user together with every task the user owns and
\* leaves the tasks of the other users as they were.
C19_Original ==
    /\ [](\A i \in DOMAIN tasks : tasks[i].user_id \in users)
    /\ [][last'.op = "deleteUser" =>
            /\ last'.path \notin users'
            /\ users' = users \ {last'.path}
            /\ tasks' = [i \in {j \in DOMAIN tasks : tasks[j].user_id # last'.path}
                           |-> tasks[i]]]_vars

\* the owner's request r run from database db as one step
Run(db, r) ==
    IF r.op = "update"
    THEN update_route(db, StoreUser.tok, StoreUser.user_id, r.id, r.arg)
    ELSE delete_route(db, StoreUser.tok, StoreUser.user_id, r.id)

\* the tables that r1 and then r2, one after the other, can leave
Serial(db, r1, r2) ==
    {o2.tasks : o2 \in UNION {Run(After(o1), r2) : o1 \in Run(db, r1)}}

\* C20: when two requests of the owner that were in progress at the same
\* time have both ended, the table is one that the two requests leave
\* when they run one after the other, in one order or the other, from the
\* database they started from; this covers requests on the same task and
\* on different tasks.
C20_Original ==
    (\A p \in Procs : txn[p].pc = "done") =>
      tasks \in Serial(snap, txn[1], txn[2]) \cup Serial(snap, txn[2], txn[1])

\* C21: a request goes on the wire only in the step of the user's event
\* (mount, submit, toggle, confirming click), one per event; the step in
\* which a call returns sends nothing, failed or not; a failed create or
\* update leaves its message in the form, a failed toggle or delete in the
\* page; the server handles a request once and a create adds at most one
\* row.
C21_NoRetry ==
    [][/\ \A k \in Slots :
            (net'[k].phase = "sent" /\ net[k].phase # "sent") =>
              /\ ev'.kind \in {"mount", "submit", "toggle", "delete"}
              /\ \A j \in Slots \ {k} : net'[j] = net[j]
              /\ hist'.calls = hist.calls + 1
       /\ (ev'.kind \in {"submit", "toggle", "delete"} /\ ev'.op # "-") =>
            \E k \in Slots : net[k].phase = "free" /\ net'[k].phase = "sent"
                             /\ net'[k].op = ev'.op
       /\ ev'.kind = "receive" =>
            /\ net' = [net EXCEPT ![ev'.slot] = NoReq]
            /\ hist'.calls = hist.calls
            /\ ~ev'.ok => /\ page'.tasks = page.tasks
                          /\ IF ev'.op \in {"create", "update"} THEN form'.error # ""
                             ELSE page'.error # ""
       /\ ev'.kind = "serve" =>
            /\ net[ev'.slot].phase = "sent"
            /\ net'[ev'.slot].phase = "served"
            /\ Cardinality(DOMAIN tasks') <= Cardinality(DOMAIN tasks) + 1
            /\ nextId' <= nextId + 1]_vars

C21_Witness ==
    /\ ev.kind = "receive"
    /\ ev.op = "create"
    /\ ~ev.ok
    /\ form.mounted
    /\ form.error = "error"
    /\ Awaited = {}
    /\ nextId = 1

\* C22: a delete request is sent only by a click on the Delete button of
\* an item whose confirmation is armed, and a confirmation is armed only by
\* a click on the button of that item; a click on an item that is not
\* armed sends nothing and arms it; an armed confirmation has its own
\* timeout pending, due ConfirmSecs seconds after the click that armed it,
\* so it is never armed for longer.
C22_DeleteConfirmed ==
    /\ [](\A i \in DOMAIN items :
            items[i].showConfirm =>
              /\ items[i].age <= ConfirmSecs
              /\ (ConfirmSecs - items[i].age) \in items[i].timers)
    /\ [][/\ \A k \in Slots :
               (net'[k].phase = "sent" /\ net[k].phase # "sent" /\ net'[k].op = "delete") =>
                 /\ ev'.kind = "delete"
                 /\ ev'.slot = net'[k].id
                 /\ net'[k].id \in DOMAIN items
                 /\ items[net'[k].id].showConfirm
          /\ \A i \in DOMAIN items' :
               (items'[i].showConfirm /\ ~(i \in DOMAIN items /\ items[i].showConfirm)) =>
                 /\ ev'.kind = "delete" /\ ev'.slot = i /\ ev'.op = "-"
                 /\ i \in DOMAIN items
          /\ (ev'.kind = "delete" /\ ~items[ev'.slot].showConfirm) =>
               /\ net' = net
               /\ items'[ev'.slot].showConfirm]_vars

C22_Witness ==
    /\ ev.kind = "delete"
    /\ ev.op = "delete"
    /\ \E k \in Slots : net[k].phase = "sent" /\ net[k].op = "delete" /\ net[k].id = ev.slot
    /\ ev.slot \in DOMAIN items
    /\ ~items[ev.slot].showConfirm
    /\ items[ev.slot].timers = {1}

\* C29: a timeout disarms a confirmation only ConfirmSecs seconds after
\* the click that armed it.
C29_Original ==
    [][\A i \in DOMAIN items :
         (ev'.kind = "timeout" /\ ev'.slot = i /\ items[i].showConfirm) =>
           items[i].age = ConfirmSecs]_vars

\* C23: once the effect of the tasks page has run, a page without a stored
\* user or with an api client that is not authenticated is on /signin, has
\* no user, renders nothing, and has made no api call; any other page has
\* the stored user as its user, its api calls carry the stored user's id,
\* and every task in its list is the stored user's.
C23_AuthGate ==
    page.route # "start" =>
      IF page.storedUser = NoUser \/ ~page.authenticated
      THEN /\ page.route = "/signin"
           /\ ~Renders(page)
           /\ Shown(page) = << >>
           /\ page.tasks = << >>
           /\ Awaited = {}
           /\ hist.calls = 0
      ELSE /\ page.route = "/tasks"
           /\ page.user = page.storedUser
           /\ \A k \in Awaited : net[k].op = "list" /\ net[k].user = page.storedUser
           /\ \A j \in DOMAIN page.tasks : page.tasks[j].row.user_id = page.storedUser

C23_Witness ==
    /\ page.route = "/signin"
    /\ page.storedUser = "A"
    /\ ~page.authenticated
    /\ \E i \in DOMAIN tasks : tasks[i].user_id = "A"

\* C24: when the page has loaded, no call is awaited, every call has
\* succeeded and no two calls were awaited at the same time, the tasks on
\* the screen are in the order of their created_at, newest first, under
\* every filter tab.
C24_Original ==
    (page.route = "/tasks" /\ ~page.loading /\ Awaited = {}
       /\ ~hist.failed /\ ~hist.overlap) =>
      \A i, j \in DOMAIN Shown(page) :
         i < j => Shown(page)[i].row.created_at >= Shown(page)[j].row.created_at

\* the tasks of the page's user in the store, as Task objects
StoreTasks(u) == {Json(i, tasks[i]) : i \in {j \in DOMAIN tasks : tasks[j].user_id = u}}

\* C25: when the list has been loaded before the first write was started,
\* every call has returned and none has failed, the local list holds each
\* task of the user in the store once, with the store's field values, and
\* nothing else.
C25_Original ==
    (page.route = "/tasks" /\ ~page.loading /\ Awaited = {}
       /\ ~hist.failed /\ ~hist.early) =>
      /\ {page.tasks[j] : j \in DOMAIN page.tasks} = StoreTasks(page.user)
      /\ Len(page.tasks) = Cardinality(StoreTasks(page.user))

\* C26: editingTask is defined only while the form is shown, so that the
\* form that "+ New Task" mounts has no task prop: it is in create mode.
C26_Original == page.editingTask # NoJson => page.showForm

\* what handleSubmit passes to onSubmit for the fields fd
Submitted(fd) ==
    [title |-> Trim(fd.title),
     description |-> IF Trim(fd.description) = EmptyStr THEN NoneStr
                     ELSE Trim(fd.description)]

\* C27: a submit with a blank title makes no call; every create and update
\* call of the form carries the trimmed title, which is not blank, and the
\* trimmed description, or no description when it is blank, never the
\* empty string; an update without a description leaves the stored
\* description of its task as it was.
C27_FormSubmits ==
    /\ [](\A k \in Slots :
            net[k].op \in {"create", "update"} =>
              /\ net[k].data.title.core > 0
              /\ net[k].data.title = Trim(net[k].data.title)
              /\ net[k].data.description # EmptyStr
              /\ net[k].data.description # NoneStr =>
                   net[k].data.description = Trim(net[k].data.description))
    /\ [][/\ (ev'.kind = "submit" /\ ev'.op = "-") =>
               /\ Trim(form.formData.title) = EmptyStr
               /\ net' = net
          /\ (ev'.kind = "submit" /\ ev'.op # "-") =>
               /\ Trim(form.formData.title) # EmptyStr
               /\ \E k \in Slots : /\ net[k].phase = "free"
                                   /\ net'[k].phase = "sent"
                                   /\ net'[k].data = Submitted(form.formData)
          /\ (ev'.kind = "serve" /\ ev'.op = "update"
                /\ net[ev'.slot].data.description = NoneStr) =>
               \A i \in DOMAIN tasks \cap DOMAIN tasks' :
                  tasks'[i].description = tasks[i].description]_vars

C27_Witness ==
    /\ ev.kind = "serve"
    /\ ev.op = "update"
    /\ net[ev.slot].status = 200
    /\ net[ev.slot].data.description = NoneStr
    /\ tasks[net[ev.slot].id].description = Str("D", 0, 1, 0)
    /\ form.loading
    /\ form.formData.description = EmptyStr

\* the calls awaited that the form has made
FormCalls == {k \in Awaited : net[k].op \in {"create", "update"}}

\* C28: the form has at most one call awaited, and has one exactly while
\* its loading is true; a submit makes a call only while loading is false,
\* and the server adds at most one row for a call.
C28_OneSubmission ==
    /\ [](/\ Cardinality(FormCalls) <= 1
          /\ form.loading <=> FormCalls # {}
          /\ FormCalls # {} => form.mounted)
    /\ [][/\ (ev'.kind = "submit" /\ ev'.op # "-") =>
               /\ ~form.loading
               /\ FormCalls = {}
               /\ form'.loading
          /\ (ev'.kind = "serve" /\ ev'.op = "create") =>
               Cardinality(DOMAIN tasks') <= Cardinality(DOMAIN tasks) + 1]_vars

C28_Witness ==
    /\ form.mounted
    /\ form.loading
    /\ \E k \in FormCalls : net[k].op = "create" /\ net[k].phase = "served"
                            /\ net[k].status = 201
    /\ page.editingTask # NoJson
    /\ Cardinality(DOMAIN tasks) = 2

\* C30: a started load, a started form submission and a started signup
\* each lead to loading being false again; the step in which a call
\* returns as failed ends the loading of its caller, sets the caller's
\* error, and leaves the form's fields and the local list as they were;
\* the step in which a form's call returns as succeeded leaves the form's
\* fields empty.
C30_LoadingEnds ==
    /\ (page.route = "/tasks" /\ page.loading) ~> ~page.loading
    /\ form.loading ~> ~form.loading
    /\ signup.loading ~> ~signup.loading
    /\ [][/\ (ev'.kind = "receive" /\ ~ev'.ok) =>
               /\ page'.tasks = page.tasks
               /\ form'.formData = form.formData
               /\ ev'.op = "list" => ~page'.loading /\ page'.error # ""
               /\ ev'.op \in {"create", "update"} => ~form'.loading /\ form'.error # ""
          /\ (ev'.kind = "receive" /\ ev'.ok) =>
               /\ ev'.op = "list" => ~page'.loading
               /\ ev'.op \in {"create", "update"} =>
                    ~form'.loading /\ form'.formData = FormData(NoJson)
          /\ ev'.kind = "signedup" =>
               /\ ~signup'.loading
               /\ signup'.password = signup.password
               /\ ~ev'.ok => signup'.error # ""]_vars

C30_Witness ==
    /\ ev.kind = "receive"
    /\ ev.op = "create"
    /\ ~ev.ok
    /\ ~form.loading
    /\ form.error = "error"
    /\ form.formData.title = Str("X", 1, 1, 1)
    /\ ~page.loading
    /\ page.error = "error"
    /\ signup.error = "error"
    /\ ~signup.loading
====
